---- MODULE Spec2Model ----
(***************************************************************************)
(* Model of the HelmChart reconciler of source-controller                  *)
(* (src/controllers/helmchart_controller.go) together with the artifact    *)
(* storage engine it drives.  One reconciliation pass is a process that    *)
(* walks through Reconcile and sync step by step; the storage root, the    *)
(* lock table, the stored resource status, the remote chart and the        *)
(* configured hostname are shared state.                                   *)
(***************************************************************************)
EXTENDS Integers, Sequences, FiniteSets, TLC

VARIABLES
    store,      \* resource -> status kept by the API server
    files,      \* storage root: path -> bytes of the regular file there
    links,      \* storage root: directory -> target of its latest link (<<>> = none)
    dirs,       \* storage root: directories that exist
    locks,      \* lock table: the paths currently locked
    remote,     \* resource -> release the remote repository serves
    hostname,   \* configured storage hostname
    pc,         \* pass -> position in Reconcile / sync
    chart,      \* pass -> the pass's copy of the resource status
    repoArt,    \* pass -> <<chart version, chart bytes>> once fetched
    art,        \* pass -> artifact computed by sync (<<>> before)
    result,     \* pass -> ctrl.Result and error returned by the pass
    wpos,       \* pass -> bytes of the package written so far by WriteFile
    hist,       \* pass -> what the pass did so far (observation only)
    observed,   \* what the last lock-free reader saw
    budget      \* environment events (changes, reads, faults) still to happen

vars == <<store, files, links, dirs, locks, remote, hostname, pc, chart,
          repoArt, art, wpos, result, hist, observed, budget>>

----------------------------------------------------------------------------
(* Bounds of the model *)

PayloadLen == 2     \* bytes in a chart package
MaxRelease == 3     \* what the remote repository publishes over time: releases 1..MaxRelease
MaxEvents == 2      \* environment events: release, deletion, hostname change, read, fault
MaxLockEvents == 1  \* crashes and faults while two processes contend for a lock

Resources == {"r1", "r2"}
Passes == {1, 2, 3}
Hostnames == {"old", "new"}

\* pass -> the resource it reconciles (req.NamespacedName)
ResourceOf(p) == IF p = 3 THEN "r2" ELSE "r1"

\* The releases of a chart, in the order the remote repository publishes them:
\* (v1, A), (v1, B), (v2, B), (v2, A), (v3, A), ... so that a version is
\* re-published with other bytes and the same bytes appear under two versions.
ReleaseVersion(k) == (k + 1) \div 2
ReleaseData(k) == [i \in 1..PayloadLen |-> IF (k \div 2) % 2 = 0 THEN 1 ELSE 2]
Release(k) == [ver |-> ReleaseVersion(k), data |-> ReleaseData(k)]

----------------------------------------------------------------------------
(* Storage engine *)

RECURSIVE Digest(_)
Digest(data) ==
    IF data = <<>> THEN 0
    ELSE Head(data) + 256 * Digest(Tail(data))

\* Storage.Checksum: deterministic content digest of the bytes
Checksum(data) == Digest(data)

\* cv.Name of the index entry of a resource's chart (chart.Spec.Name)
ChartName(r) == "chart"

\* (mutant) the file name without the checksum
FileNameWithoutSum(name, ver, sum) == <<name, ver, 0>>

\* fmt.Sprintf("%s-%s-%s.tgz", cv.Name, cv.Version, sum)
FileName(name, ver, sum) == <<name, ver, sum>>

\* <root>/<kind>/<namespace>/<name>/<filename>
PathFor(r, fileName) == [dir |-> r, file |-> fileName]

Dir(path) == path.dir

\* Public URL: <configured-hostname><storage-relative-path>
URLFor(host, path) == <<host, path>>

\* Storage.ArtifactFor(kind, metadata, fileName, revision)
ArtifactFor(r, fileName, revision, host) ==
    [path     |-> PathFor(r, fileName),
     revision |-> revision,
     url      |-> URLFor(host, PathFor(r, fileName))]

\* Storage.ArtifactExist: a regular file is present at the resolved path
ArtifactExist(fs, artifact) == artifact.path \in DOMAIN fs

Put(fs, path, data) ==
    [q \in (DOMAIN fs) \cup {path} |-> IF q = path THEN data ELSE fs[q]]

Remove(fs, gone) == [q \in (DOMAIN fs) \ gone |-> fs[q]]

FilesIn(fs, d) == {q \in DOMAIN fs : Dir(q) = d}

\* Storage.RemoveAllButCurrent: every file of the artifact's directory
\* except the file backing the artifact
RemoveAllButCurrent(fs, artifact) ==
    Remove(fs, FilesIn(fs, Dir(artifact.path)) \ {artifact.path})

\* temporary file of an atomic write, colocated with the destination
TmpPath(artifact, p) == [dir |-> Dir(artifact.path), file |-> <<"tmp", p, 0>>]

\* (mutant) the bytes are written straight into the destination
WriteTargetInPlace(artifact, p) == artifact.path

\* where the bytes of Storage.WriteFile go before the rename
WriteTarget(artifact, p) == TmpPath(artifact, p)

\* Storage.Lock: exclusive lock scoped to the resolved path
LockKey(artifact) == artifact.path

IsTmp(path) == path.file[1] = "tmp"

----------------------------------------------------------------------------
(* Status helpers of the API package *)

Cond(type, status, reason) == [type |-> type, status |-> status, reason |-> reason]

RemoveByType(conds, types) == SelectSeq(conds, LAMBDA c : c.type \notin types)

Upsert(conds, c) ==
    IF \E i \in 1..Len(conds) : conds[i].type = c.type
    THEN [i \in 1..Len(conds) |-> IF conds[i].type = c.type THEN c ELSE conds[i]]
    ELSE Append(conds, c)

EmptyStatus == [conditions |-> <<>>, artifact |-> <<>>, url |-> <<>>]

\* sourcev1.HelmChartNotReady(chart, reason, message)
HelmChartNotReady(c, reason) ==
    [c EXCEPT !.conditions =
        Upsert(RemoveByType(c.conditions, {"Ready"}),
               Cond("FetchFailed", "True", reason))]

\* (mutant) Ready is asserted next to whatever failure condition was there
HelmChartReadyKeepsFailure(c, artifact, url, reason) ==
    [conditions |->
        Upsert(RemoveByType(c.conditions, {"ArtifactOutdated", "ArtifactUnavailable"}),
               Cond("Ready", "True", reason)),
     artifact |-> <<artifact>>,
     url |-> <<url>>]

\* (mutant) the transient markers are set to false and stay in the set
HelmChartReadyMarksFalse(c, artifact, url, reason) ==
    [conditions |->
        Upsert([i \in 1..Len(RemoveByType(c.conditions, {"FetchFailed"})) |->
                   LET k == RemoveByType(c.conditions, {"FetchFailed"})[i] IN
                   IF k.type \in {"ArtifactOutdated", "ArtifactUnavailable"}
                   THEN [k EXCEPT !.status = "False"]
                   ELSE k],
               Cond("Ready", "True", reason)),
     artifact |-> <<artifact>>,
     url |-> <<url>>]

\* sourcev1.HelmChartReady(chart, artifact, url, reason, message)
HelmChartReady(c, artifact, url, reason) ==
    [conditions |->
        Upsert(RemoveByType(c.conditions,
                   {"FetchFailed", "ArtifactOutdated", "ArtifactUnavailable"}),
               Cond("Ready", "True", reason)),
     artifact |-> <<artifact>>,
     url |-> <<url>>]

IsTrue(c, type) ==
    \E i \in 1..Len(c.conditions) :
        c.conditions[i].type = type /\ c.conditions[i].status = "True"

Reason(c, type) ==
    {c.conditions[i].reason : i \in {j \in 1..Len(c.conditions) : c.conditions[j].type = type}}

----------------------------------------------------------------------------
(* Reconcile *)

\* (mutant) the status is reset only when no condition is set
shouldResetStatusConditionsOnly(c, fs) ==
    <<Len(c.conditions) = 0,
      [conditions |-> <<Cond("Ready", "Unknown", "Initializing")>>,
       artifact |-> <<>>,
       url |-> <<>>]>>

\* HelmChartReconciler.shouldResetStatus: <<reset, status>>
shouldResetStatus(c, fs) ==
    <<(c.artifact # <<>> /\ ~ArtifactExist(fs, c.artifact[1]))
         \/ Len(c.conditions) = 0,
      [conditions |-> <<Cond("Ready", "Unknown", "Initializing")>>,
       artifact |-> <<>>,
       url |-> <<>>]>>

\* (mutant) gc with its guard inverted: nothing is collected
gcSkipped(c, fs) == fs

\* (mutant) gc that keeps the current file and removes every other file of the root
gcWholeRoot(c, fs) ==
    IF c.artifact # <<>> THEN Remove(fs, (DOMAIN fs) \ {c.artifact[1].path}) ELSE fs

\* HelmChartReconciler.gc: the storage root after garbage collection
gc(c, fs) ==
    IF c.artifact # <<>> THEN RemoveAllButCurrent(fs, c.artifact[1]) ELSE fs

NoResult == [requeue |-> FALSE, after |-> 0, err |-> FALSE]
Interval(r) == IF r = "r1" THEN 5 ELSE 7

\* start, host: recorded artifact and hostname when the pass read the resource;
\* reset, missing: the status was reset, and because the file was missing;
\* ops: storage operations done, each with whether the pass held the lock;
\* index, secret: what the pass found wrong with the index and the secret;
\* failedAt: the step that failed; gcRemoved, gcFailed: outcome of the GC step;
\* updated: the final status update succeeded.
NoHist == [start |-> <<>>, host |-> "", reset |-> FALSE, missing |-> FALSE,
           ops |-> {}, index |-> "", secret |-> "", failedAt |-> "",
           gcRemoved |-> 0, gcFailed |-> FALSE, updated |-> FALSE]

LockHeld(p) == \E k \in locks : k[2] = p

Unlocked(p) == {k \in locks : k[2] # p}

Did(p, op) == [hist EXCEPT ![p].ops = @ \cup {[op |-> op, held |-> LockHeld(p)]}]

fsVars == <<files, links, dirs>>
envVars == <<remote, hostname, observed>>
syncVars == <<repoArt, art, wpos>>

Init ==
    /\ store = [r \in Resources |-> EmptyStatus]
    /\ files = <<>>
    /\ links = [r \in Resources |-> <<>>]
    /\ dirs = {}
    /\ locks = {}
    /\ remote = [r \in Resources |-> 1]
    /\ hostname = "old"
    /\ pc = [p \in Passes |-> "idle"]
    /\ chart = [p \in Passes |-> EmptyStatus]
    /\ repoArt = [p \in Passes |-> <<>>]
    /\ art = [p \in Passes |-> <<>>]
    /\ wpos = [p \in Passes |-> 0]
    /\ result = [p \in Passes |-> NoResult]
    /\ hist = [p \in Passes |-> NoHist]
    /\ observed = <<>>
    /\ budget = MaxEvents

\* an environment event happens: one of the bounded number
Spend == budget > 0 /\ budget' = budget - 1

\* lines 56-59: r.Get fetches the resource
Get(p) ==
    /\ pc[p] = "idle"
    /\ chart' = [chart EXCEPT ![p] = store[ResourceOf(p)]]
    /\ hist' = [hist EXCEPT ![p] = [NoHist EXCEPT !.start = store[ResourceOf(p)].artifact,
                                                 !.host = hostname]]
    /\ pc' = [pc EXCEPT ![p] = "reset"]
    /\ UNCHANGED <<store, fsVars, locks, envVars, budget, syncVars, result>>

\* lines 57-59: r.Get fails; a not-found error is ignored
GetFailed(p) ==
    /\ pc[p] = "idle"
    /\ Spend
    /\ \E notFound \in BOOLEAN :
         result' = [result EXCEPT ![p] =
                       [requeue |-> TRUE, after |-> 0, err |-> ~notFound]]
    /\ hist' = [hist EXCEPT ![p] = [NoHist EXCEPT !.failedAt = "get"]]
    /\ pc' = [pc EXCEPT ![p] = "done"]
    /\ UNCHANGED <<store, fsVars, locks, envVars, syncVars, chart>>

Missing(p) == chart[p].artifact # <<>> /\ ~ArtifactExist(files, chart[p].artifact[1])

\* (mutant) the reset clears the conditions and leaves the recorded artifact
ResetStatusKeepsArtifact(p) ==
    /\ pc[p] = "reset"
    /\ LET rs == shouldResetStatus(chart[p], files) IN
       IF rs[1]
       THEN /\ chart' = [chart EXCEPT ![p] = [rs[2] EXCEPT !.artifact = chart[p].artifact]]
            /\ hist' = [hist EXCEPT ![p].reset = TRUE, ![p].missing = Missing(p)]
            /\ pc' = [pc EXCEPT ![p] = "resetupd"]
       ELSE /\ pc' = [pc EXCEPT ![p] = "gc"]
            /\ UNCHANGED <<chart, hist>>
    /\ UNCHANGED <<store, fsVars, locks, envVars, syncVars, result, budget>>

\* lines 63-66: check the recorded artifact against the storage and the
\* conditions; when a reset is due, put the initial status in the chart
ResetStatus(p) ==
    /\ pc[p] = "reset"
    /\ LET rs == shouldResetStatus(chart[p], files) IN
       IF rs[1]
       THEN /\ chart' = [chart EXCEPT ![p] = rs[2]]
            /\ hist' = [hist EXCEPT ![p].reset = TRUE, ![p].missing = Missing(p)]
            /\ pc' = [pc EXCEPT ![p] = "resetupd"]
       ELSE /\ pc' = [pc EXCEPT ![p] = "gc"]
            /\ UNCHANGED <<chart, hist>>
    /\ UNCHANGED <<store, fsVars, locks, envVars, syncVars, result, budget>>

\* lines 67-70: store the reset status; when the update fails the pass returns
ResetStatusUpdate(p) ==
    /\ pc[p] = "resetupd"
    /\ \/ /\ store' = [store EXCEPT ![ResourceOf(p)] = chart[p]]
          /\ pc' = [pc EXCEPT ![p] = "gc"]
          /\ UNCHANGED <<result, hist, budget>>
       \/ /\ result' = [result EXCEPT ![p] =
                            [requeue |-> TRUE, after |-> 0, err |-> TRUE]]
          /\ hist' = [hist EXCEPT ![p].failedAt = "reset"]
          /\ pc' = [pc EXCEPT ![p] = "done"]
          /\ Spend
          /\ UNCHANGED store
    /\ UNCHANGED <<fsVars, locks, envVars, syncVars, chart>>

\* (mutant) a failed garbage collection ends the pass with its error
GarbageCollectFatal(p) ==
    /\ pc[p] = "gc"
    /\ LET removable == (DOMAIN files) \ (DOMAIN gc(chart[p], files)) IN
       \E gone \in SUBSET removable :
          /\ files' = Remove(files, gone)
          /\ IF gone = removable THEN UNCHANGED budget ELSE Spend
          /\ hist' = [hist EXCEPT ![p].gcRemoved = Cardinality(gone),
                                  ![p].gcFailed = (gone # removable)]
          /\ IF gone = removable
             THEN /\ pc' = [pc EXCEPT ![p] = "getrepo"]
                  /\ UNCHANGED result
             ELSE /\ pc' = [pc EXCEPT ![p] = "done"]
                  /\ result' = [result EXCEPT ![p] =
                                    [requeue |-> TRUE, after |-> 0, err |-> TRUE]]
    /\ UNCHANGED <<store, links, dirs, locks, envVars, syncVars, chart>>

\* lines 73-76: garbage collection; a failure leaves some files and is only logged
GarbageCollect(p) ==
    /\ pc[p] = "gc"
    /\ LET removable == (DOMAIN files) \ (DOMAIN gc(chart[p], files)) IN
       \E gone \in SUBSET removable :
          /\ files' = Remove(files, gone)
          /\ IF gone = removable THEN UNCHANGED budget ELSE Spend
          /\ hist' = [hist EXCEPT ![p].gcRemoved = Cardinality(gone),
                                  ![p].gcFailed = (gone # removable)]
    /\ pc' = [pc EXCEPT ![p] = "getrepo"]
    /\ UNCHANGED <<store, links, dirs, locks, envVars, syncVars, chart, result>>

\* (mutant) the error return hands back the chart with the new artifact set
SyncFailWithArtifact(p, reason, step, h) ==
    /\ chart' = [chart EXCEPT ![p] =
          [HelmChartNotReady(chart[p], reason) EXCEPT
              !.artifact = IF art[p] # <<>> THEN art[p] ELSE @]]
    /\ hist' = [h EXCEPT ![p].failedAt = step]
    /\ Spend
    /\ locks' = Unlocked(p)
    /\ pc' = [pc EXCEPT ![p] = "syncerr"]

\* (mutant) the error return of sync without the deferred unlock
SyncFailKeepsLock(p, reason, step, h) ==
    /\ chart' = [chart EXCEPT ![p] = HelmChartNotReady(chart[p], reason)]
    /\ hist' = [h EXCEPT ![p].failedAt = step]
    /\ Spend
    /\ UNCHANGED locks
    /\ pc' = [pc EXCEPT ![p] = "syncerr"]

\* (mutant) the error return of sync hands the chart back as it was
SyncFailPlain(p, reason, step, h) ==
    /\ UNCHANGED chart
    /\ hist' = [h EXCEPT ![p].failedAt = step]
    /\ Spend
    /\ locks' = Unlocked(p)
    /\ pc' = [pc EXCEPT ![p] = "syncerr"]

\* the error return of sync: HelmChartNotReady with a reason, deferred unlock
SyncFail(p, reason, step, h) ==
    /\ chart' = [chart EXCEPT ![p] = HelmChartNotReady(chart[p], reason)]
    /\ hist' = [h EXCEPT ![p].failedAt = step]
    /\ Spend
    /\ locks' = Unlocked(p)
    /\ pc' = [pc EXCEPT ![p] = "syncerr"]

\* lines 78-92: get the referenced repository, set the owner reference
GetRepository(p) ==
    /\ pc[p] = "getrepo"
    /\ \/ /\ pc' = [pc EXCEPT ![p] = "resolve"]
          /\ UNCHANGED <<chart, store, hist, result, budget>>
       \/ /\ Spend
          /\ chart' = [chart EXCEPT ![p] = HelmChartNotReady(chart[p], "ChartPullFailed")]
          /\ \E updated \in BOOLEAN :
                /\ store' = IF updated
                            THEN [store EXCEPT ![ResourceOf(p)] = chart'[p]]
                            ELSE store
                /\ hist' = [hist EXCEPT ![p].failedAt = "getrepo",
                                        ![p].updated = updated]
          /\ result' = [result EXCEPT ![p] =
                           [requeue |-> TRUE, after |-> 0, err |-> TRUE]]
          /\ pc' = [pc EXCEPT ![p] = "done"]
    /\ UNCHANGED <<fsVars, locks, envVars, syncVars>>

IndexOutcomes ==
    {"ok", "readerr", "parseerr", "nochart", "noversion", "nourls", "badurl", "badscheme"}

\* the reason sync gives for each failure of lines 134-173
IndexFailureReason(o) ==
    IF o \in {"readerr", "parseerr"} THEN "StorageOperationFailed" ELSE "ChartPullFailed"

\* (mutant) a chart version without download URL is not rejected
SyncResolveNoURLCheck(p) ==
    /\ pc[p] = "resolve"
    /\ \E o \in IndexOutcomes :
         IF o = "ok"
         THEN /\ repoArt' = [repoArt EXCEPT ![p] = <<Release(remote[ResourceOf(p)]).ver>>]
              /\ pc' = [pc EXCEPT ![p] = "secret"]
              /\ UNCHANGED <<chart, hist, locks, budget>>
         ELSE IF o = "nourls"
         THEN /\ repoArt' = [repoArt EXCEPT ![p] = <<Release(remote[ResourceOf(p)]).ver>>]
              /\ pc' = [pc EXCEPT ![p] = "secret"]
              /\ hist' = [hist EXCEPT ![p].index = o]
              /\ Spend
              /\ UNCHANGED <<chart, locks>>
         ELSE /\ SyncFail(p, IndexFailureReason(o), "resolve", [hist EXCEPT ![p].index = o])
              /\ UNCHANGED repoArt
    /\ UNCHANGED <<store, fsVars, envVars, art, wpos, result>>

\* lines 134-173: read the index, find the chart version, parse its URL, pick a getter
SyncResolve(p) ==
    /\ pc[p] = "resolve"
    /\ \E o \in IndexOutcomes :
         IF o = "ok"
         THEN /\ repoArt' = [repoArt EXCEPT ![p] = <<Release(remote[ResourceOf(p)]).ver>>]
              /\ pc' = [pc EXCEPT ![p] = "secret"]
              /\ UNCHANGED <<chart, hist, locks, budget>>
         ELSE /\ SyncFail(p, IndexFailureReason(o), "resolve", [hist EXCEPT ![p].index = o])
              /\ UNCHANGED repoArt
    /\ UNCHANGED <<store, fsVars, envVars, art, wpos, result>>

SecretStates == {"none", "ok", "missing", "malformed"}

\* (mutant) the error of the secret lookup is dropped and the fetch goes on
SyncSecretIgnored(p) ==
    /\ pc[p] = "secret"
    /\ \E s \in SecretStates :
         /\ pc' = [pc EXCEPT ![p] = "fetch"]
         /\ IF s \in {"missing", "malformed"}
            THEN hist' = [hist EXCEPT ![p].secret = s] /\ Spend
            ELSE UNCHANGED <<hist, budget>>
         /\ UNCHANGED <<chart, locks>>
    /\ UNCHANGED <<store, fsVars, envVars, syncVars, result>>

\* (mutant) the chart is downloaded before the error of the secret is returned
SyncSecretAfterFetch(p) ==
    /\ pc[p] = "secret"
    /\ \E s \in SecretStates :
         IF s \in {"missing", "malformed"}
         THEN /\ SyncFail(p, "AuthenticationFailed", "secret", [hist EXCEPT ![p].secret = s])
              /\ repoArt' = [repoArt EXCEPT ![p] =
                     <<repoArt[p][1], Release(remote[ResourceOf(p)]).data>>]
              /\ UNCHANGED <<art, wpos>>
         ELSE /\ pc' = [pc EXCEPT ![p] = "fetch"]
              /\ UNCHANGED <<chart, hist, locks, budget, syncVars>>
    /\ UNCHANGED <<store, fsVars, envVars, result>>

\* lines 175-198: resolve the client options from the referenced secret
SyncSecret(p) ==
    /\ pc[p] = "secret"
    /\ \E s \in SecretStates :
         IF s \in {"missing", "malformed"}
         THEN SyncFail(p, "AuthenticationFailed", "secret", [hist EXCEPT ![p].secret = s])
         ELSE /\ pc' = [pc EXCEPT ![p] = "fetch"]
              /\ UNCHANGED <<chart, hist, locks, budget>>
    /\ UNCHANGED <<store, fsVars, envVars, syncVars, result>>

\* lines 200-214: download the chart, compute its checksum and artifact
SyncFetch(p) ==
    /\ pc[p] = "fetch"
    /\ \/ LET r == ResourceOf(p)
              ver == repoArt[p][1]
              data == Release(remote[r]).data
          IN /\ repoArt' = [repoArt EXCEPT ![p] = <<ver, data>>]
             /\ art' = [art EXCEPT ![p] =
                   <<ArtifactFor(r, FileName(ChartName(r), ver, Checksum(data)),
                                 ver, hostname)>>]
             /\ pc' = [pc EXCEPT ![p] = "mkdir"]
             /\ UNCHANGED <<chart, hist, locks, budget>>
       \/ /\ SyncFail(p, "ChartPullFailed", "fetch", hist)
          /\ UNCHANGED <<repoArt, art>>
    /\ UNCHANGED <<store, fsVars, envVars, wpos, result>>

\* lines 216-221: create the artifact directory
SyncMkdir(p) ==
    /\ pc[p] = "mkdir"
    /\ \/ /\ dirs' = dirs \cup {Dir(art[p][1].path)}
          /\ hist' = Did(p, "mkdir")
          /\ pc' = [pc EXCEPT ![p] = "lock"]
          /\ UNCHANGED <<chart, locks, budget>>
       \/ /\ SyncFail(p, "ChartPullFailed", "mkdir", hist)
          /\ UNCHANGED dirs
    /\ UNCHANGED <<store, files, links, envVars, syncVars, result>>

\* lines 223-229: acquire the lock of the artifact; blocks while another pass holds it
SyncLock(p) ==
    /\ pc[p] = "lock"
    /\ \/ /\ \A k \in locks : k[1] # LockKey(art[p][1])
          /\ locks' = locks \cup {<<LockKey(art[p][1]), p>>}
          /\ hist' = Did(p, "lock")
          /\ pc' = [pc EXCEPT ![p] = "write"]
          /\ UNCHANGED <<chart, budget>>
       \/ SyncFail(p, "ChartPullFailed", "lock", hist)
    /\ UNCHANGED <<store, fsVars, envVars, syncVars, result>>

\* lines 233-236, Storage.WriteFile failing part-way: the temporary file is cleaned up
WriteFailed(p) ==
    /\ files' = Remove(files, {q \in DOMAIN files : q = TmpPath(art[p][1], p)})
    /\ SyncFail(p, "ChartPullFailed", "write", hist)
    /\ wpos' = [wpos EXCEPT ![p] = 0]

\* lines 233-236, Storage.WriteFile: the rename finds the written file gone
RenameFailed(p) ==
    /\ chart' = [chart EXCEPT ![p] = HelmChartNotReady(chart[p], "ChartPullFailed")]
    /\ hist' = [hist EXCEPT ![p].failedAt = "write"]
    /\ locks' = Unlocked(p)
    /\ pc' = [pc EXCEPT ![p] = "syncerr"]
    /\ wpos' = [wpos EXCEPT ![p] = 0]
    /\ UNCHANGED <<files, budget>>

\* lines 231-236, Storage.WriteFile: create the file the bytes are written to
SyncWriteOpen(p) ==
    /\ pc[p] = "write"
    /\ \/ /\ files' = Put(files, WriteTarget(art[p][1], p), <<>>)
          /\ hist' = Did(p, "write")
          /\ wpos' = [wpos EXCEPT ![p] = 0]
          /\ pc' = [pc EXCEPT ![p] = "writing"]
          /\ UNCHANGED <<chart, locks, budget>>
       \/ /\ SyncFail(p, "ChartPullFailed", "write", hist)
          /\ UNCHANGED <<files, wpos>>
    /\ UNCHANGED <<store, links, dirs, envVars, repoArt, art, result>>

\* Storage.WriteFile: write the next byte through the open descriptor
SyncWriteChunk(p) ==
    /\ pc[p] = "writing"
    /\ wpos[p] < Len(repoArt[p][2])
    /\ \/ LET target == WriteTarget(art[p][1], p) IN
          /\ files' = IF target \in DOMAIN files
                      THEN Put(files, target, Append(files[target], repoArt[p][2][wpos[p] + 1]))
                      ELSE files
          /\ wpos' = [wpos EXCEPT ![p] = @ + 1]
          /\ UNCHANGED <<chart, hist, locks, pc, budget>>
       \/ WriteFailed(p)
    /\ UNCHANGED <<store, links, dirs, envVars, repoArt, art, result>>

\* Storage.WriteFile: rename the written file into place
SyncWriteRename(p) ==
    /\ pc[p] = "writing"
    /\ wpos[p] = Len(repoArt[p][2])
    /\ LET target == WriteTarget(art[p][1], p) IN
       \/ /\ target \in DOMAIN files
          /\ files' = Put(Remove(files, {target}), art[p][1].path, files[target])
          /\ hist' = Did(p, "rename")
          /\ wpos' = [wpos EXCEPT ![p] = 0]
          /\ pc' = [pc EXCEPT ![p] = "symlink"]
          /\ UNCHANGED <<chart, locks, budget>>
       \/ /\ target \in DOMAIN files
          /\ WriteFailed(p)
       \/ /\ target \notin DOMAIN files
          /\ RenameFailed(p)
    /\ UNCHANGED <<store, links, dirs, envVars, repoArt, art, result>>

\* name of the latest link: fmt.Sprintf("%s-latest.tgz", cv.Name)
LinkPath(r) == PathFor(r, <<ChartName(r), 0, 0>>)

\* (mutant) a latest link that exists already is left as it is
SyncSymlinkKeepsPrior(p) ==
    /\ pc[p] = "symlink"
    /\ \/ LET r == ResourceOf(p) IN
          /\ links' = IF links[Dir(art[p][1].path)] = <<>>
                       THEN [links EXCEPT ![Dir(art[p][1].path)] = <<art[p][1].path>>]
                       ELSE links
          /\ chart' = [chart EXCEPT ![p] =
                HelmChartReady(chart[p], art[p][1], URLFor(hostname, LinkPath(r)),
                               "ChartPullSucceeded")]
          /\ hist' = Did(p, "symlink")
          /\ locks' = Unlocked(p)
          /\ pc' = [pc EXCEPT ![p] = "update"]
          /\ UNCHANGED budget
       \/ /\ SyncFail(p, "StorageOperationFailed", "symlink", hist)
          /\ UNCHANGED links
    /\ UNCHANGED <<store, files, dirs, envVars, syncVars, result>>

\* lines 238-246: update the latest link, return the ready chart; deferred unlock
SyncSymlink(p) ==
    /\ pc[p] = "symlink"
    /\ \/ LET r == ResourceOf(p) IN
          /\ links' = [links EXCEPT ![Dir(art[p][1].path)] = <<art[p][1].path>>]
          /\ chart' = [chart EXCEPT ![p] =
                HelmChartReady(chart[p], art[p][1], URLFor(hostname, LinkPath(r)),
                               "ChartPullSucceeded")]
          /\ hist' = Did(p, "symlink")
          /\ locks' = Unlocked(p)
          /\ pc' = [pc EXCEPT ![p] = "update"]
          /\ UNCHANGED budget
       \/ /\ SyncFail(p, "StorageOperationFailed", "symlink", hist)
          /\ UNCHANGED links
    /\ UNCHANGED <<store, files, dirs, envVars, syncVars, result>>

\* lines 96-102: sync failed; the status is written back, the pass returns the error
SyncFailedUpdate(p) ==
    /\ pc[p] = "syncerr"
    /\ \/ /\ store' = [store EXCEPT ![ResourceOf(p)] = chart[p]]
          /\ hist' = [hist EXCEPT ![p].updated = TRUE]
          /\ UNCHANGED budget
       \/ /\ Spend
          /\ UNCHANGED <<store, hist>>
    /\ result' = [result EXCEPT ![p] = [requeue |-> TRUE, after |-> 0, err |-> TRUE]]
    /\ pc' = [pc EXCEPT ![p] = "done"]
    /\ UNCHANGED <<fsVars, locks, envVars, syncVars, chart>>

\* (mutant) the pass requeues after a fixed delay, not the interval of the resource
UpdateStatusFixedDelay(p) ==
    /\ pc[p] = "update"
    /\ \/ /\ store' = [store EXCEPT ![ResourceOf(p)] = chart[p]]
          /\ hist' = [hist EXCEPT ![p].updated = TRUE]
          /\ result' = [result EXCEPT ![p] =
                [requeue |-> FALSE, after |-> Interval("r1"), err |-> FALSE]]
          /\ UNCHANGED budget
       \/ /\ Spend
          /\ result' = [result EXCEPT ![p] =
                [requeue |-> TRUE, after |-> 0, err |-> TRUE]]
          /\ hist' = [hist EXCEPT ![p].failedAt = "update"]
          /\ UNCHANGED store
    /\ pc' = [pc EXCEPT ![p] = "done"]
    /\ UNCHANGED <<fsVars, locks, envVars, syncVars, chart>>

\* lines 104-113: sync succeeded; update the status and requeue after the interval
UpdateStatus(p) ==
    /\ pc[p] = "update"
    /\ \/ /\ store' = [store EXCEPT ![ResourceOf(p)] = chart[p]]
          /\ hist' = [hist EXCEPT ![p].updated = TRUE]
          /\ result' = [result EXCEPT ![p] =
                [requeue |-> FALSE, after |-> Interval(ResourceOf(p)), err |-> FALSE]]
          /\ UNCHANGED budget
       \/ /\ Spend
          /\ result' = [result EXCEPT ![p] =
                [requeue |-> TRUE, after |-> 0, err |-> TRUE]]
          /\ hist' = [hist EXCEPT ![p].failedAt = "update"]
          /\ UNCHANGED store
    /\ pc' = [pc EXCEPT ![p] = "done"]
    /\ UNCHANGED <<fsVars, locks, envVars, syncVars, chart>>

\* the pass has returned; the next trigger starts a new one
Finish(p) ==
    /\ pc[p] = "done"
    /\ pc' = [pc EXCEPT ![p] = "idle"]
    /\ chart' = [chart EXCEPT ![p] = EmptyStatus]
    /\ repoArt' = [repoArt EXCEPT ![p] = <<>>]
    /\ art' = [art EXCEPT ![p] = <<>>]
    /\ result' = [result EXCEPT ![p] = NoResult]
    /\ hist' = [hist EXCEPT ![p] = NoHist]
    /\ UNCHANGED <<store, fsVars, locks, envVars, budget, wpos>>

Step(p) ==
    \/ Get(p) \/ GetFailed(p) \/ ResetStatus(p) \/ ResetStatusUpdate(p)
    \/ GarbageCollect(p)
    \/ GetRepository(p) \/ SyncResolve(p) \/ SyncSecret(p) \/ SyncFetch(p)
    \/ SyncMkdir(p) \/ SyncLock(p) \/ SyncWriteOpen(p) \/ SyncWriteChunk(p)
    \/ SyncWriteRename(p) \/ SyncSymlink(p) \/ SyncFailedUpdate(p)
    \/ UpdateStatus(p) \/ Finish(p)

----------------------------------------------------------------------------
(* Environment *)

\* the remote repository publishes the next release of the chart of a resource
RemoteChange(r) ==
    /\ Spend
    /\ remote[r] < MaxRelease
    /\ remote' = [remote EXCEPT ![r] = @ + 1]
    /\ UNCHANGED <<store, fsVars, locks, hostname, observed, pc, chart, syncVars,
                   result, hist>>

\* a file of the storage root is deleted out-of-band
DeleteFile ==
    /\ Spend
    /\ \E q \in DOMAIN files : files' = Remove(files, {q})
    /\ UNCHANGED <<store, links, dirs, locks, remote, hostname, observed, pc, chart,
                   syncVars, result, hist>>

\* the storage hostname is reconfigured
ChangeHostname ==
    /\ Spend
    /\ \E h \in Hostnames \ {hostname} : hostname' = h
    /\ UNCHANGED <<store, fsVars, locks, remote, observed, pc, chart, syncVars,
                   result, hist>>

\* a reader (status consumer, file server) reads an artifact path without the lock
Read ==
    /\ Spend
    /\ \E q \in {f \in DOMAIN files : ~IsTmp(f)} :
          observed' = <<[path |-> q, data |-> files[q],
                         midWrite |-> \E p \in Passes :
                             pc[p] = "writing" /\ art[p][1].path = q]>>
    /\ UNCHANGED <<store, fsVars, locks, remote, hostname, pc, chart, syncVars,
                   result, hist>>

\* One resource, its passes serialized by the work queue, with readers,
\* out-of-band deletion, hostname changes and new remote releases.
Next ==
    \/ Step(1)
    \/ RemoteChange("r1")
    \/ DeleteFile
    \/ ChangeHostname
    \/ Read

Spec == Init /\ [][Next]_vars

\* Two overlapping passes of the same resource.
NextOverlap ==
    \/ Step(1)
    \/ Step(2)
    \/ RemoteChange("r1")

SpecOverlap == Init /\ [][NextOverlap]_vars

\* Passes of two resources sharing the storage root.
NextShared ==
    \/ Step(1)
    \/ Step(3)
    \/ RemoteChange("r1")
    \/ RemoteChange("r2")

SpecShared == Init /\ [][NextShared]_vars

\* the transient markers a status can carry when a pass starts:
\* conditions.MarkTrue(obj, <marker>, "Foo", "")
Markers == {"ArtifactOutdated", "ArtifactUnavailable"}

MarkedConditions ==
    {<<>>} \cup {<<Cond(m, "True", "Foo")>> : m \in Markers}
           \cup {<<Cond(mn[1], "True", "Foo"), Cond(mn[2], "True", "Foo")>> :
                     mn \in {x \in Markers \X Markers : x[1] # x[2]}}

\* as Init, with the status of the resource carrying transient markers
InitMarked ==
    /\ \E cs \in MarkedConditions :
          store = [r \in Resources |->
                      IF r = "r1" THEN [EmptyStatus EXCEPT !.conditions = cs]
                      ELSE EmptyStatus]
    /\ files = <<>>
    /\ links = [r \in Resources |-> <<>>]
    /\ dirs = {}
    /\ locks = {}
    /\ remote = [r \in Resources |-> 1]
    /\ hostname = "old"
    /\ pc = [p \in Passes |-> "idle"]
    /\ chart = [p \in Passes |-> EmptyStatus]
    /\ repoArt = [p \in Passes |-> <<>>]
    /\ art = [p \in Passes |-> <<>>]
    /\ wpos = [p \in Passes |-> 0]
    /\ result = [p \in Passes |-> NoResult]
    /\ hist = [p \in Passes |-> NoHist]
    /\ observed = <<>>
    /\ budget = MaxEvents

\* One resource whose status carries transient markers when its passes start.
NextMarked ==
    \/ Step(1)
    \/ RemoteChange("r1")

SpecMarked == InitMarked /\ [][NextMarked]_vars

\* lines 200-202: the remote server never answers the request; c.Get is
\* called without a timeout and the pass stays blocked in it
FetchHangs(p) ==
    /\ pc[p] = "fetch"
    /\ Spend
    /\ pc' = [pc EXCEPT ![p] = "hung"]
    /\ UNCHANGED <<store, fsVars, locks, envVars, syncVars, chart, result, hist>>

\* One resource whose remote server may stop answering; the worker runs
\* every step of a pass that is enabled.
NextHang ==
    \/ Step(1)
    \/ FetchHangs(1)
    \/ RemoteChange("r1")

SpecHang == Init /\ [][NextHang]_vars /\ WF_vars(Step(1))

\* the process running a pass dies while the pass holds the lock: the lock,
\* an advisory lock scoped to the life of the process, is released; what the
\* pass had written stays; the restarted process starts passes afresh
Crash(p) ==
    /\ LockHeld(p)
    /\ Spend
    /\ locks' = Unlocked(p)
    /\ pc' = [pc EXCEPT ![p] = "idle"]
    /\ chart' = [chart EXCEPT ![p] = EmptyStatus]
    /\ repoArt' = [repoArt EXCEPT ![p] = <<>>]
    /\ art' = [art EXCEPT ![p] = <<>>]
    /\ wpos' = [wpos EXCEPT ![p] = 0]
    /\ result' = [result EXCEPT ![p] = NoResult]
    /\ hist' = [hist EXCEPT ![p] = NoHist]
    /\ UNCHANGED <<store, fsVars, envVars>>

\* Two processes, each running passes of the same resource and so wanting
\* the lock of the same artifact; either process may die holding it.  Each
\* worker runs the enabled steps of its pass; which of the passes blocked
\* in Storage.Lock gets a freed lock is left open.
NextLock ==
    \/ Step(1)
    \/ Step(2)
    \/ Crash(1)
    \/ Crash(2)

\* as Init, with the events bounded for two contending processes
InitLock ==
    /\ store = [r \in Resources |-> EmptyStatus]
    /\ files = <<>>
    /\ links = [r \in Resources |-> <<>>]
    /\ dirs = {}
    /\ locks = {}
    /\ remote = [r \in Resources |-> 1]
    /\ hostname = "old"
    /\ pc = [p \in Passes |-> "idle"]
    /\ chart = [p \in Passes |-> EmptyStatus]
    /\ repoArt = [p \in Passes |-> <<>>]
    /\ art = [p \in Passes |-> <<>>]
    /\ wpos = [p \in Passes |-> 0]
    /\ result = [p \in Passes |-> NoResult]
    /\ hist = [p \in Passes |-> NoHist]
    /\ observed = <<>>
    /\ budget = MaxLockEvents

SpecLock ==
    /\ InitLock /\ [][NextLock]_vars
    /\ WF_vars(Step(1)) /\ WF_vars(Step(2))

\* a file of the storage root is deleted out-of-band while no pass is running
DeleteBetweenPasses ==
    /\ \A p \in Passes : pc[p] = "idle"
    /\ DeleteFile

\* One resource, its passes serialized, with files deleted out-of-band
\* between the passes only.
NextStale ==
    \/ Step(1)
    \/ RemoteChange("r1")
    \/ DeleteBetweenPasses

SpecStale == Init /\ [][NextStale]_vars

----------------------------------------------------------------------------
(* Properties *)

OpsOf(p) == {o.op : o \in hist[p].ops}

FileOps == {"write", "rename", "symlink"}

\* the artifact recorded for the pass before its persistence sequence started
Before(p) == IF hist[p].reset THEN <<>> ELSE hist[p].start

\* the remote serves what the artifact recorded at the start of the pass was made of
RemoteUnchanged(p) ==
    LET rel == Release(remote[ResourceOf(p)]) IN
    /\ hist[p].start # <<>>
    /\ hist[p].start[1].path =
          PathFor(ResourceOf(p),
                  FileName(ChartName(ResourceOf(p)), rel.ver, Checksum(rel.data)))
    /\ hist[p].start[1].revision = rel.ver

\* all bytes of a package, matching the digest in the name of the path
Complete(path, data) ==
    /\ Len(data) = PayloadLen
    /\ Checksum(data) = path.file[3]

\* C1: whatever a reader that takes no lock reads at an artifact path is a
\* complete file, also when a pass is writing that path at the moment of
\* the read; at every moment every file at an artifact path is complete.
C1_AtomicReads ==
    /\ observed # <<>> => Complete(observed[1].path, observed[1].data)
    /\ \A q \in DOMAIN files : ~IsTmp(q) => Complete(q, files[q])

C1_Witness == observed # <<>> /\ observed[1].midWrite

\* C2: when mkdir, lock, write or symlink fails, the chart handed back and
\* the status written back carry the artifact recorded before persistence
\* started; the artifact of the pass changes only after all of mkdir, lock,
\* write, rename and symlink were done.
C2_NoPartialPersistence ==
    \A p \in Passes : pc[p] = "done" =>
        /\ hist[p].failedAt \in {"mkdir", "lock", "write", "symlink"} =>
              /\ chart[p].artifact = Before(p)
              /\ store[ResourceOf(p)].artifact = Before(p)
        /\ chart[p].artifact # Before(p) =>
              {"mkdir", "lock", "write", "rename", "symlink"} \subseteq OpsOf(p)

C2_Witness ==
    /\ pc[1] = "done"
    /\ hist[1].failedAt = "symlink"
    /\ hist[1].updated
    /\ hist[1].start # <<>>
    /\ art[1] # hist[1].start
    /\ store["r1"].artifact = hist[1].start

\* C3: every storage operation of the persistence sequence (mkdir, write,
\* rename, symlink) runs while the pass holds the lock of its artifact.
C3_LockBeforeMkdir ==
    \A p \in Passes : \A o \in hist[p].ops :
        o.op \in {"mkdir", "write", "rename", "symlink"} => o.held

\* C4: with overlapping passes of one resource and no deletion but garbage
\* collection, once the passes have returned the recorded artifact of the
\* resource has its file: GC never removed what another pass persisted.
C4_CurrentNeverCollected ==
    \A r \in Resources :
        (/\ \A p \in Passes : ResourceOf(p) = r => pc[p] \in {"idle", "done"}
         /\ store[r].artifact # <<>>)
        => ArtifactExist(files, store[r].artifact[1])

\* C5: a successful pass that finds the recorded artifact in storage and
\* fetches exactly what that artifact was made of, under the same hostname,
\* does no file write, rename or symlink and leaves the recorded artifact as it was.
C5_SecondPassWritesNothing ==
    \A p \in Passes :
        (/\ pc[p] = "done"
         /\ ~result[p].err
         /\ ~hist[p].reset
         /\ hist[p].start # <<>>
         /\ art[p] = hist[p].start
         /\ hist[p].host = hostname)
        => /\ OpsOf(p) \cap FileOps = {}
           /\ store[ResourceOf(p)].artifact = hist[p].start

\* C6: a garbage collection that does not fail, run with a recorded
\* artifact whose file is in storage, leaves exactly that file in the
\* artifact's directory, with its bytes, and changes no recorded artifact.
C6_GCKeepsOnlyCurrent ==
    [][\A p \in Passes :
          (/\ pc[p] = "gc" /\ pc'[p] = "getrepo"
           /\ ~hist'[p].gcFailed
           /\ chart[p].artifact # <<>>
           /\ ArtifactExist(files, chart[p].artifact[1]))
          => LET path == chart[p].artifact[1].path IN
             /\ FilesIn(files', Dir(path)) = {path}
             /\ files'[path] = files[path]
             /\ chart'[p].artifact = chart[p].artifact
             /\ store' = store]_vars

C6_Witness ==
    /\ pc[1] = "getrepo"
    /\ hist[1].gcRemoved >= 1
    /\ ~hist[1].gcFailed
    /\ chart[1].artifact # <<>>
    /\ FilesIn(files, "r1") = {chart[1].artifact[1].path}

\* C7: the garbage collection of a pass changes no file outside the
\* artifact directory of the resource the pass reconciles.
C7_GCStaysInOwnDirectory ==
    [][\A p \in Passes :
          (pc[p] = "gc" /\ pc'[p] = "getrepo") =>
             \A r \in Resources \ {ResourceOf(p)} :
                /\ FilesIn(files', r) = FilesIn(files, r)
                /\ \A q \in FilesIn(files, r) : files'[q] = files[q]]_vars

C7_Witness ==
    /\ pc[1] = "getrepo"
    /\ hist[1].gcRemoved >= 1
    /\ FilesIn(files, "r2") # {}

\* C8: a pass that finds the recorded artifact's file missing (and in which
\* no call fails) ends with ArtifactUnavailable asserted, the record cleared,
\* a requeue without delay and without error, no file collected and Ready
\* not reported.
C8_MissingArtifactRequeues ==
    \A p \in Passes :
        (pc[p] = "done" /\ hist[p].missing /\ hist[p].failedAt = "") =>
            /\ result[p] = [requeue |-> TRUE, after |-> 0, err |-> FALSE]
            /\ IsTrue(chart[p], "ArtifactUnavailable")
            /\ chart[p].artifact = <<>>
            /\ hist[p].gcRemoved = 0
            /\ ~IsTrue(chart[p], "Ready")

\* the recorded artifact has its file, but its url is not hostname + path
StaleURL(p) ==
    /\ hist[p].start # <<>>
    /\ ~hist[p].reset
    /\ hist[p].start[1].url # URLFor(hist[p].host, hist[p].start[1].path)

\* C9: a pass that finds the recorded artifact in storage with a url the
\* configured hostname does not produce, the remote content being unchanged
\* (and in which no call fails), ends with the recorded url rewritten to
\* hostname + path, the rest of the record as it was, and no file write,
\* rename or symlink.
C9_URLRewritten ==
    \A p \in Passes :
        (/\ pc[p] = "done"
         /\ StaleURL(p)
         /\ hist[p].failedAt = ""
         /\ hist[p].host = hostname
         /\ RemoteUnchanged(p))
        => /\ store[ResourceOf(p)].artifact =
                 <<[hist[p].start[1] EXCEPT
                       !.url = URLFor(hostname, hist[p].start[1].path)]>>
           /\ OpsOf(p) \cap FileOps = {}

\* C10: a pass whose secret lookup finds the secret missing or malformed
\* ends with the failure condition asserted with reason AuthenticationFailed
\* and a non-nil error, has done no storage operation, and hands back and
\* leaves recorded the artifact that was recorded before.
C10_AuthFailure ==
    \A p \in Passes :
        (pc[p] = "done" /\ hist[p].secret \in {"missing", "malformed"}) =>
            /\ IsTrue(chart[p], "FetchFailed")
            /\ Reason(chart[p], "FetchFailed") = {"AuthenticationFailed"}
            /\ ~IsTrue(chart[p], "Ready")
            /\ result[p].err
            /\ OpsOf(p) = {}
            /\ chart[p].artifact = Before(p)
            /\ store[ResourceOf(p)].artifact = Before(p)
            /\ hist[p].updated => store[ResourceOf(p)] = chart[p]

C10_Witness ==
    /\ pc[1] = "done"
    /\ hist[1].secret = "missing"
    /\ hist[1].start # <<>>
    /\ hist[1].updated

\* C11: a pass whose chart URL is malformed or has a scheme no getter
\* supports ends with the failure condition asserted and the zero result:
\* no requeue, no delay, no error.
C11_BadURLZeroResult ==
    \A p \in Passes :
        (pc[p] = "done" /\ hist[p].index \in {"badurl", "badscheme"}) =>
            /\ IsTrue(chart[p], "FetchFailed")
            /\ result[p] = [requeue |-> FALSE, after |-> 0, err |-> FALSE]

\* the pass went through without any call failing and its status update was stored
CleanPass(p) ==
    /\ pc[p] = "done"
    /\ hist[p].failedAt = ""
    /\ ~hist[p].gcFailed
    /\ hist[p].updated

\* C12: with no deletion but garbage collection, every pass in which no call
\* fails ends with Ready asserted, the fetched revision recorded, and the
\* directory of the resource holding exactly one revision file, the one
\* backing the recorded artifact, with the latest link pointing at it: so
\* after a first pass, after a second pass with the same remote content, and
\* after a third pass that follows a new remote revision.
C12_EndToEnd ==
    \A p \in Passes : CleanPass(p) =>
        LET r == ResourceOf(p) IN
        /\ IsTrue(store[r], "Ready")
        /\ store[r].artifact = art[p]
        /\ FilesIn(files, r) = {art[p][1].path}
        /\ links[r] = <<art[p][1].path>>

\* C13: a pass whose fetch, persistence and status update all succeed
\* returns no error and the polling interval of its resource as the delay,
\* with Ready asserted, the failure condition gone and the recorded artifact
\* being the artifact computed for the fetched revision; no other pass
\* returns a delay.
C13_SuccessRequeuesAfterInterval ==
    \A p \in Passes : pc[p] = "done" =>
        /\ hist[p].failedAt = "" =>
              /\ result[p] = [requeue |-> FALSE, after |-> Interval(ResourceOf(p)),
                              err |-> FALSE]
              /\ IsTrue(chart[p], "Ready")
              /\ ~IsTrue(chart[p], "FetchFailed")
              /\ chart[p].artifact = art[p]
              /\ art[p][1].revision = repoArt[p][1]
              /\ art[p][1].path =
                    PathFor(ResourceOf(p),
                            FileName(ChartName(ResourceOf(p)), repoArt[p][1],
                                     Checksum(repoArt[p][2])))
              /\ store[ResourceOf(p)] = chart[p]
        /\ hist[p].failedAt # "" => result[p].after = 0

C13_Witness ==
    /\ pc[3] = "done"
    /\ hist[3].failedAt = ""
    /\ result[3].after = Interval("r2")
    /\ store["r2"].artifact = art[3]
    /\ hist[3].start # <<>>
    /\ art[3] # hist[3].start

\* C14: a garbage collection that fails to remove superseded files neither
\* ends the pass nor touches its status or result: the pass goes on to the
\* repository lookup, fetch and persistence, and when no later call fails it
\* ends as a pass whose garbage collection succeeded does: no error, the
\* polling interval as delay, Ready asserted, the new artifact recorded.
C14_GCFailureNonFatal ==
    /\ [](\A p \in Passes :
            (pc[p] = "done" /\ hist[p].gcFailed /\ hist[p].failedAt = "") =>
                /\ result[p] = [requeue |-> FALSE, after |-> Interval(ResourceOf(p)),
                                err |-> FALSE]
                /\ IsTrue(store[ResourceOf(p)], "Ready")
                /\ ~IsTrue(store[ResourceOf(p)], "FetchFailed")
                /\ store[ResourceOf(p)].artifact = art[p]
                /\ {"write", "rename", "symlink"} \subseteq OpsOf(p))
    /\ [][\A p \in Passes :
            pc[p] = "gc" =>
                \/ pc'[p] = "gc"
                \/ /\ pc'[p] = "getrepo"
                   /\ result'[p] = result[p]
                   /\ chart'[p] = chart[p]
                   /\ store' = store]_vars

C14_Witness ==
    /\ pc[1] = "done"
    /\ hist[1].gcFailed
    /\ hist[1].failedAt = ""
    /\ result[1] = [requeue |-> FALSE, after |-> Interval("r1"), err |-> FALSE]
    /\ Cardinality(FilesIn(files, "r1")) >= 2

\* the index has no entry the chart can be resolved from: no chart of that
\* name (an empty index included), no such version, or no download URL
Unresolvable == {"nochart", "noversion", "nourls"}

\* C15: a pass whose index has no resolvable entry for the chart fails with
\* an error and the failure condition, has computed no artifact and done no
\* directory creation, file write, rename or symlink, and hands back and
\* leaves recorded the artifact that was recorded before.
C15_EmptyIndexFailsFast ==
    \A p \in Passes : hist[p].index \in Unresolvable =>
        /\ pc[p] \in {"syncerr", "done"}
        /\ hist[p].failedAt = "resolve"
        /\ art[p] = <<>>
        /\ OpsOf(p) = {}
        /\ IsTrue(chart[p], "FetchFailed")
        /\ ~IsTrue(chart[p], "Ready")
        /\ chart[p].artifact = Before(p)
        /\ store[ResourceOf(p)].artifact = Before(p)
        /\ pc[p] = "done" => result[p].err

C15_Witness ==
    /\ pc[1] = "done"
    /\ hist[1].index = "nochart"
    /\ hist[1].start # <<>>
    /\ ~hist[1].reset
    /\ hist[1].updated
    /\ store["r1"].artifact = hist[1].start
    /\ ArtifactExist(files, hist[1].start[1])

\* C16: in no state, and so after no pass whatever its outcome, does the
\* recorded status of a resource, or the status a pass is about to write
\* back, have both Ready and the failure condition asserted true.
C16_ReadyExcludesFetchFailed ==
    /\ \A r \in Resources :
          ~(IsTrue(store[r], "Ready") /\ IsTrue(store[r], "FetchFailed"))
    /\ \A p \in Passes :
          ~(IsTrue(chart[p], "Ready") /\ IsTrue(chart[p], "FetchFailed"))

\* a pass that succeeds while the recorded status still carries the failure
\* condition of the pass before
C16_Witness ==
    /\ pc[1] = "update"
    /\ IsTrue(store["r1"], "FetchFailed")
    /\ IsTrue(chart[1], "Ready")

HasCondition(c, types) ==
    \E i \in 1..Len(c.conditions) : c.conditions[i].type \in types

\* C17: once the persistence of a pass has succeeded, the status the pass
\* hands back has Ready asserted and carries neither ArtifactOutdated nor
\* ArtifactUnavailable, with any value, whatever markers the status carried
\* when the pass started; the recorded status is that status once the
\* update is done.
C17_MarkersRemoved ==
    \A p \in Passes :
        (pc[p] \in {"update", "done"} /\ "symlink" \in OpsOf(p)) =>
            /\ IsTrue(chart[p], "Ready")
            /\ ~HasCondition(chart[p], Markers)
            /\ hist[p].updated =>
                  /\ IsTrue(store[ResourceOf(p)], "Ready")
                  /\ ~HasCondition(store[ResourceOf(p)], Markers)

\* the persistence of a pass has succeeded while the recorded status still
\* carries both markers
C17_Witness ==
    /\ pc[1] = "update"
    /\ "symlink" \in OpsOf(1)
    /\ \A m \in Markers : IsTrue(store["r1"], m)
    /\ ~HasCondition(chart[1], Markers)

\* C18: with no deletion but garbage collection, the latest link of a
\* directory changes only in the symlink step of a pass, which makes it
\* point at the path of the artifact the pass has just written and hands
\* back a status recording that artifact; so the link always points at the
\* artifact persisted last, and when a pass has ended without a failed call
\* the link resolves to the complete file backing the recorded artifact.
C18_LatestLinkFollowsArtifact ==
    /\ [](\A p \in Passes :
            (pc[p] = "done" /\ hist[p].failedAt = "") =>
                LET r == ResourceOf(p) IN
                /\ store[r].artifact = art[p]
                /\ links[r] = <<store[r].artifact[1].path>>
                /\ ArtifactExist(files, store[r].artifact[1])
                /\ Complete(links[r][1], files[links[r][1]]))
    /\ [][\A r \in Resources :
            links'[r] # links[r] =>
                \E p \in Passes :
                    /\ ResourceOf(p) = r
                    /\ pc[p] = "symlink" /\ pc'[p] = "update"
                    /\ links'[r] = <<art[p][1].path>>
                    /\ chart'[p].artifact = art[p]
                    /\ ArtifactExist(files', art[p][1])]_vars

\* a pass has ended after persisting a new revision: the link points at the
\* new file while the file of the superseded revision is still in the directory
C18_Witness ==
    /\ pc[1] = "done"
    /\ hist[1].failedAt = ""
    /\ hist[1].start # <<>>
    /\ art[1] # hist[1].start
    /\ ArtifactExist(files, hist[1].start[1])
    /\ links["r1"] = <<art[1][1].path>>
    /\ links["r1"] # <<hist[1].start[1].path>>

\* C19: a pass that has started and not yet returned can always take its
\* next step, also when the remote server never answers its fetch: it is
\* never blocked for good, and a pass that ends on a failed fetch has the
\* failure condition asserted and asks for a retry.
C19_PassTerminates ==
    \A p \in Passes :
        /\ pc[p] \notin {"idle", "done"} => ENABLED Step(p)
        /\ (pc[p] = "done" /\ hist[p].failedAt = "fetch") =>
              /\ IsTrue(chart[p], "FetchFailed")
              /\ result[p].requeue

\* the lock of the artifact of pass p is held by nobody
LockFree(p) == \A k \in locks : k[1] # LockKey(art[p][1])

\* C20 as claimed: every pass waiting for the lock of an artifact gets it,
\* or gets the error of the lock call, in the end.
C20_WaiterAcquires ==
    \A p \in {1, 2} :
        (pc[p] = "lock") ~>
            (pc[p] = "write" \/ (pc[p] = "syncerr" /\ hist[p].failedAt = "lock"))

\* C20 amended: a pass holds a lock only between its acquisition and the
\* return of sync, so the lock is released on every exit of the persistence
\* (write failure, symlink failure, success) and when the holding process
\* dies; a lock has one holder at a time; every lock that is held is
\* released in the end; and a pass waiting for the lock of its artifact
\* finds it free again and again for as long as it waits.
C20_LockNeverDeadlocks ==
    /\ [](\A p \in Passes :
            LockHeld(p) <=> pc[p] \in {"write", "writing", "symlink"})
    /\ [](\A k \in locks : \A l \in locks : k[1] = l[1] => k = l)
    /\ \A p \in {1, 2} : LockHeld(p) ~> ~LockHeld(p)
    /\ \A p \in {1, 2} : (pc[p] = "lock") ~> (pc[p] # "lock" \/ LockFree(p))

\* a pass has got the lock of an artifact whose earlier holder died while
\* writing it: the temporary file of the dead process is still there
C20_Witness ==
    /\ pc[2] = "write"
    /\ <<LockKey(art[2][1]), 2>> \in locks
    /\ TmpPath(art[2][1], 1) \in DOMAIN files
    /\ pc[1] = "idle"

\* the pass has downloaded the chart: sync holds its bytes
Fetched(p) == Len(repoArt[p]) = 2

\* C21: once the lookup of the secret of a pass has failed (secret missing,
\* or malformed, invalid CA material included), the pass is on its error
\* return: it has not downloaded the chart and never does, has computed no
\* artifact, and has done no directory creation, lock, write or symlink;
\* a pass downloads the chart only from the step after a secret lookup
\* that did not fail.
C21_NoFetchAfterSecretFailure ==
    /\ [](\A p \in Passes : hist[p].secret \in {"missing", "malformed"} =>
            /\ pc[p] \in {"syncerr", "done"}
            /\ hist[p].failedAt = "secret"
            /\ ~Fetched(p)
            /\ art[p] = <<>>
            /\ OpsOf(p) = {})
    /\ [][\A p \in Passes :
            (~Fetched(p) /\ Fetched(p)') =>
                /\ pc[p] = "fetch"
                /\ hist[p].secret = ""]_vars

C21_Witness ==
    /\ pc[1] = "done"
    /\ hist[1].secret = "malformed"
    /\ Len(repoArt[1]) = 1
    /\ IsTrue(store["r1"], "FetchFailed")
    /\ hist[1].start # <<>>
    /\ ArtifactExist(files, hist[1].start[1])

\* C22 as claimed: after any completed pass that read the resource, a
\* recorded artifact has a file at its path.
C22_RecordHasFile ==
    \A p \in Passes : (pc[p] = "done" /\ hist[p].failedAt # "get") =>
        (store[ResourceOf(p)].artifact # <<>> =>
            ArtifactExist(files, store[ResourceOf(p)].artifact[1]))

\* C22 amended: after a completed pass that read the resource and whose
\* reset of the status, when one was due, was stored, a recorded artifact
\* has a file at its path; a record found without its file is cleared from
\* the status before anything else is done, and when such a pass reports
\* Ready it is against the artifact the pass itself has persisted.
C22_RecordHasFileUnlessResetFailed ==
    \A p \in Passes :
        LET r == ResourceOf(p) IN
        /\ (pc[p] = "done" /\ hist[p].failedAt \notin {"get", "reset"}) =>
              (store[r].artifact # <<>> => ArtifactExist(files, store[r].artifact[1]))
        /\ (hist[p].missing /\ pc[p] = "resetupd") =>
              (hist[p].reset /\ chart[p].artifact = <<>> /\ OpsOf(p) = {})
        /\ (hist[p].missing /\ pc[p] # "resetupd" /\ hist[p].failedAt # "reset") =>
              /\ hist[p].reset
              /\ store[r].artifact # <<>> =>
                    /\ pc[p] = "done"
                    /\ store[r].artifact = art[p]
                    /\ "symlink" \in OpsOf(p)
              /\ IsTrue(chart[p], "Ready") =>
                    /\ chart[p].artifact = art[p]
                    /\ "symlink" \in OpsOf(p)
                    /\ ArtifactExist(files, art[p][1])

\* a pass that found the record without its file has ended Ready, the
\* record pointing at the file the pass has written
C22_Witness ==
    /\ pc[1] = "done"
    /\ hist[1].missing
    /\ hist[1].failedAt = ""
    /\ IsTrue(store["r1"], "Ready")
    /\ store["r1"].artifact = art[1]
    /\ ArtifactExist(files, art[1][1])

\* the steps whose errors are storage, credential, transport or content errors
TaxonomySteps ==
    {"getrepo", "resolve", "secret", "fetch", "mkdir", "lock", "write", "symlink"}

\* the reasons the failure condition is given
TaxonomyReasons == {"StorageOperationFailed", "AuthenticationFailed", "ChartPullFailed"}

\* the status has one failure condition, asserted, with a reason of the
\* taxonomy, and Ready is not asserted
OneFailure(c) ==
    /\ Cardinality({i \in 1..Len(c.conditions) : c.conditions[i].type = "FetchFailed"}) = 1
    /\ IsTrue(c, "FetchFailed")
    /\ Reason(c, "FetchFailed") \subseteq TaxonomyReasons
    /\ ~IsTrue(c, "Ready")

\* C23 as claimed: every pass that ends on an error of the taxonomy returns
\* a scheduling result and leaves the recorded status with one failure
\* condition and without the Ready of an earlier pass.
C23_FailureRecorded ==
    \A p \in Passes :
        (pc[p] = "done" /\ hist[p].failedAt \in TaxonomySteps) =>
            /\ result[p].requeue
            /\ OneFailure(store[ResourceOf(p)])

\* C23 amended: every pass that ends on an error of the taxonomy returns a
\* requeue with the error and hands back a status with one failure
\* condition and without Ready; the recorded status is that status when the
\* status update of the pass succeeded, and is left as it was when not.
C23_FailureRecordedWhenUpdated ==
    \A p \in Passes :
        (pc[p] = "done" /\ hist[p].failedAt \in TaxonomySteps) =>
            /\ result[p] = [requeue |-> TRUE, after |-> 0, err |-> TRUE]
            /\ OneFailure(chart[p])
            /\ hist[p].updated => store[ResourceOf(p)] = chart[p]
            /\ ~hist[p].updated =>
                  store[ResourceOf(p)].artifact = Before(p)

\* a pass after a Ready one has failed to fetch and its status was stored
C23_Witness ==
    /\ pc[1] = "done"
    /\ hist[1].failedAt = "fetch"
    /\ hist[1].updated
    /\ hist[1].start # <<>>
    /\ ~hist[1].reset
    /\ store["r1"].conditions = <<Cond("FetchFailed", "True", "ChartPullFailed")>>

\* C24: a pass that ends on a failed directory creation, lock acquisition,
\* file write or symlink has its failure condition asserted with the
\* storage-operation reason, which is neither the reason of a failed fetch
\* nor the authentication reason.
C24_StorageFailureReason ==
    \A p \in Passes :
        (pc[p] = "done" /\ hist[p].failedAt \in {"mkdir", "lock", "write", "symlink"}) =>
            /\ IsTrue(chart[p], "FetchFailed")
            /\ Reason(chart[p], "FetchFailed") = {"StorageOperationFailed"}

\* C25 as claimed: a pass that found the record absent or stale has reset
\* the status before its garbage collection, which has deleted no file.
C25_ResetBeforeGC ==
    \A p \in Passes :
        (pc[p] = "getrepo" /\ (hist[p].start = <<>> \/ hist[p].missing)) =>
            /\ hist[p].reset
            /\ hist[p].gcRemoved = 0

\* C25 amended: the garbage collection of a pass works from the recorded
\* artifact only when the check of the pass found its file, and that file
\* is there before and after; a record found stale is reset first, and a
\* record that is absent, reset or not, makes the garbage collection delete
\* no file: a stale record never empties the directory.
C25_GCOnlyWithCheckedRecord ==
    [][\A p \in Passes :
          (pc[p] = "gc" /\ pc'[p] = "getrepo") =>
              /\ hist[p].missing => (hist[p].reset /\ chart[p].artifact = <<>>)
              /\ chart[p].artifact = <<>> =>
                    (files' = files /\ hist'[p].gcRemoved = 0)
              /\ chart[p].artifact # <<>> =>
                    /\ ~hist[p].reset
                    /\ chart[p].artifact = hist[p].start
                    /\ ArtifactExist(files, chart[p].artifact[1])
                    /\ ArtifactExist(files', chart[p].artifact[1])]_vars

\* the garbage collection of a pass that found its record stale has run
\* and the other file of the directory is still there
C25_Witness ==
    /\ pc[1] = "getrepo"
    /\ hist[1].missing
    /\ hist[1].reset
    /\ hist[1].gcRemoved = 0
    /\ FilesIn(files, "r1") # {}
    /\ ~ArtifactExist(files, hist[1].start[1])

\* the path sync computes for the chart of a resource, given version and bytes
ChartPath(r, ver, data) == PathFor(r, FileName(ChartName(r), ver, Checksum(data)))

\* C26: the path of a chart artifact is that of its resource, chart name,
\* version and the checksum of its bytes: over all resources and releases,
\* two paths are the same exactly when resource, version and bytes are; the
\* artifact of a pass has the path of what the pass fetched; and no step
\* changes the bytes of a file that is at an artifact path, also when the
\* same version is published again with other bytes.
C26_PathDeterminedByContent ==
    /\ [](\A r1 \in Resources : \A r2 \in Resources :
          \A k1 \in 1..MaxRelease : \A k2 \in 1..MaxRelease :
             (ChartPath(r1, Release(k1).ver, Release(k1).data)
                 = ChartPath(r2, Release(k2).ver, Release(k2).data))
             <=> (r1 = r2 /\ Release(k1) = Release(k2)))
    /\ [](\A p \in Passes : art[p] # <<>> =>
            /\ Fetched(p)
            /\ art[p][1].path = ChartPath(ResourceOf(p), repoArt[p][1], repoArt[p][2])
            /\ art[p][1].revision = repoArt[p][1])
    /\ [][\A q \in (DOMAIN files) \cap (DOMAIN files') :
            ~IsTmp(q) => files'[q] = files[q]]_vars

\* a pass has persisted other bytes under the version recorded before: the
\* file of the earlier bytes is still there, at another path, as it was
C26_Witness ==
    /\ pc[1] = "done"
    /\ hist[1].failedAt = ""
    /\ hist[1].start # <<>>
    /\ art[1][1].revision = hist[1].start[1].revision
    /\ art[1][1].path # hist[1].start[1].path
    /\ ArtifactExist(files, hist[1].start[1])
    /\ ArtifactExist(files, art[1][1])
    /\ files[art[1][1].path] # files[hist[1].start[1].path]

====
